---- MODULE Spec2Model ----
(***************************************************************************)
(* The /api/reply server-sent-event relay of backend/main.py: the          *)
(* character scanner that cuts top-level JSON objects out of a streamed    *)
(* LLM answer, the per-object enrichment (image search, speech synthesis), *)
(* the terminal events, and the queue that bridges the runner thread to    *)
(* the HTTP response generator.                                            *)
(*                                                                         *)
(* A text is a sequence of one-character strings.  Positions named as in   *)
(* the source (pos, object_start, i) are 0-based like Python's; the        *)
(* sequences of TLA+ are 1-based, so character pos of a text is text[pos+1]*)
(***************************************************************************)
EXTENDS Integers, Sequences, FiniteSets, TLC

(***************************************************************************)
(* json.loads (CPython's json.decoder / json.scanner), on a sequence of    *)
(* characters.  A parsed value is a record [t, s, n, c]:                   *)
(*   t  the kind: "str" "int" "float" "true" "false" "null" "arr" "obj"    *)
(*   s  the decoded string ("str"), the literal text ("float")             *)
(*   n  the value of an "int"                                              *)
(*   c  the children: the items of an "arr", the members [k, v] of an      *)
(*      "obj" in insertion order (a Python dict keeps insertion order).    *)
(* A result is [ok, v, e]: e is the 1-based index after the value.         *)
(***************************************************************************)
At(s, i) == IF i >= 1 /\ i <= Len(s) THEN s[i] ELSE "EOF"

WHITESPACE == {" ", "\t", "\n", "\r"}

DIGITS == {"0", "1", "2", "3", "4", "5", "6", "7", "8", "9"}

HEXDIGITS == DIGITS \cup {"a", "b", "c", "d", "e", "f", "A", "B", "C", "D", "E", "F"}

DigitValue == ("0" :> 0) @@ ("1" :> 1) @@ ("2" :> 2) @@ ("3" :> 3) @@ ("4" :> 4) @@
              ("5" :> 5) @@ ("6" :> 6) @@ ("7" :> 7) @@ ("8" :> 8) @@ ("9" :> 9)

\* json.decoder.BACKSLASH: the one-character escapes and what they decode to.
BACKSLASH == ("\"" :> "\"") @@ ("\\" :> "\\") @@ ("/" :> "/") @@ ("b" :> "<BS>") @@
             ("f" :> "<FF>") @@ ("n" :> "\n") @@ ("r" :> "\r") @@ ("t" :> "\t")

\* The characters py_scanstring refuses inside a string when strict (the default).
CONTROL == {"\t", "\n", "\r", "<BS>", "<FF>"}

StrVal(str) == [t |-> "str", s |-> str, n |-> 0, c |-> <<>>]
IntVal(k) == [t |-> "int", s |-> "", n |-> k, c |-> <<>>]
\* nz is 1 when the float is not zero (Python's truth value of a float).
FloatVal(str, nz) == [t |-> "float", s |-> str, n |-> nz, c |-> <<>>]
ConstVal(kind) == [t |-> kind, s |-> "", n |-> 0, c |-> <<>>]
ArrVal(items) == [t |-> "arr", s |-> "", n |-> 0, c |-> items]
ObjVal(members) == [t |-> "obj", s |-> "", n |-> 0, c |-> members]

\* Python's None, as the result of dict.get on a missing key.
None == ConstVal("null")

\* A JSONDecodeError.
JSONDecodeError == [ok |-> FALSE, v |-> None, e |-> 0]

Ok(val, end) == [ok |-> TRUE, v |-> val, e |-> end]

RECURSIVE SkipWS(_, _)
SkipWS(s, i) == IF At(s, i) \in WHITESPACE THEN SkipWS(s, i + 1) ELSE i

RECURSIVE Str(_)
\* ''.join(chars): the string a sequence of characters spells.
Str(chars) == IF chars = <<>> THEN "" ELSE Head(chars) \o Str(Tail(chars))

\* s[i:i+len(word)] == word
Match(s, i, word) ==
    /\ i + Len(word) - 1 <= Len(s)
    /\ \A k \in 1..Len(word) : s[i + k - 1] = word[k]

RECURSIVE py_scanstring(_, _, _)
\* The string whose opening quote was just before index i; acc is what was decoded.
py_scanstring(s, i, acc) ==
    LET ch == At(s, i)
        esc == At(s, i + 1)
    IN  IF ch = "EOF" THEN JSONDecodeError
        ELSE IF ch = "\"" THEN Ok(StrVal(acc), i + 1)
        ELSE IF ch = "\\" THEN
            IF esc \in DOMAIN BACKSLASH
                THEN py_scanstring(s, i + 2, acc \o BACKSLASH[esc])
            ELSE IF esc = "u" /\ \A k \in 2..5 : At(s, i + k) \in HEXDIGITS
                THEN py_scanstring(s, i + 6, acc \o "<U+" \o Str(SubSeq(s, i + 2, i + 5)) \o ">")
            ELSE JSONDecodeError
        ELSE IF ch \in CONTROL THEN JSONDecodeError
        ELSE py_scanstring(s, i + 1, acc \o ch)

RECURSIVE DigitsEnd(_, _)
\* The index after the run of digits that starts at i.
DigitsEnd(s, i) == IF At(s, i) \in DIGITS THEN DigitsEnd(s, i + 1) ELSE i

RECURSIVE IntOf(_)
IntOf(chars) ==
    IF chars = <<>> THEN 0
    ELSE 10 * IntOf(SubSeq(chars, 1, Len(chars) - 1)) + DigitValue[chars[Len(chars)]]

\* NUMBER_RE.match at i: (-?(?:0|[1-9]\d*))(\.\d+)?([eE][-+]?\d+)?
match_number(s, i) ==
    LET j == IF At(s, i) = "-" THEN i + 1 ELSE i
        k == IF At(s, j) = "0" THEN j + 1
             ELSE IF At(s, j) \in DIGITS THEN DigitsEnd(s, j)
             ELSE 0
        f == IF At(s, k) = "." /\ At(s, k + 1) \in DIGITS THEN DigitsEnd(s, k + 1) ELSE k
        g == IF At(s, f + 1) \in {"-", "+"} THEN f + 2 ELSE f + 1
        x == IF At(s, f) \in {"e", "E"} /\ At(s, g) \in DIGITS THEN DigitsEnd(s, g) ELSE f
        mag == IntOf(SubSeq(s, j, k - 1))
    IN  IF k = 0 THEN JSONDecodeError
        ELSE IF x = k THEN Ok(IntVal(IF j > i THEN 0 - mag ELSE mag), k)
        ELSE Ok(FloatVal(Str(SubSeq(s, i, x - 1)),
                         IF \E d \in j..(f - 1) : s[d] \in DIGITS \ {"0"} THEN 1 ELSE 0), x)

\* dict[k] = v on the list of members: a repeated key keeps its place, the last value wins.
SetItem(members, key, val) ==
    IF \E m \in 1..Len(members) : members[m].k = key
        THEN [m \in 1..Len(members) |->
                 IF members[m].k = key THEN [k |-> key, v |-> val] ELSE members[m]]
        ELSE Append(members, [k |-> key, v |-> val])

RECURSIVE scan_once(_, _)
RECURSIVE JSONObject(_, _, _)
RECURSIVE JSONArray(_, _, _)

\* json.scanner.py_make_scanner._scan_once
scan_once(s, i) ==
    LET nextchar == At(s, i)
        num == match_number(s, i)
    IN  IF nextchar = "EOF" THEN JSONDecodeError
        ELSE IF nextchar = "\"" THEN py_scanstring(s, i + 1, "")
        ELSE IF nextchar = "{" THEN
            LET j == SkipWS(s, i + 1)
            IN  IF At(s, j) = "}" THEN Ok(ObjVal(<<>>), j + 1)
                ELSE IF At(s, j) # "\"" THEN JSONDecodeError
                ELSE JSONObject(s, j + 1, <<>>)
        ELSE IF nextchar = "[" THEN
            LET j == SkipWS(s, i + 1)
            IN  IF At(s, j) = "]" THEN Ok(ArrVal(<<>>), j + 1)
                ELSE JSONArray(s, j, <<>>)
        ELSE IF nextchar = "n" /\ Match(s, i, <<"n", "u", "l", "l">>)
            THEN Ok(ConstVal("null"), i + 4)
        ELSE IF nextchar = "t" /\ Match(s, i, <<"t", "r", "u", "e">>)
            THEN Ok(ConstVal("true"), i + 4)
        ELSE IF nextchar = "f" /\ Match(s, i, <<"f", "a", "l", "s", "e">>)
            THEN Ok(ConstVal("false"), i + 5)
        ELSE IF num.ok THEN num
        ELSE IF nextchar = "N" /\ Match(s, i, <<"N", "a", "N">>)
            THEN Ok(FloatVal("NaN", 1), i + 3)
        ELSE IF nextchar = "I" /\ Match(s, i, <<"I", "n", "f", "i", "n", "i", "t", "y">>)
            THEN Ok(FloatVal("Infinity", 1), i + 8)
        ELSE IF nextchar = "-" /\ Match(s, i, <<"-", "I", "n", "f", "i", "n", "i", "t", "y">>)
            THEN Ok(FloatVal("-Infinity", 1), i + 9)
        ELSE JSONDecodeError

\* json.decoder.JSONObject's loop; i is the index after the opening quote of a key.
JSONObject(s, i, pairs) ==
    LET key == py_scanstring(s, i, "")
        colon == SkipWS(s, key.e)
        value == scan_once(s, SkipWS(s, colon + 1))
        j == SkipWS(s, value.e)
        q == SkipWS(s, j + 1)
        now == SetItem(pairs, key.v.s, value.v)
    IN  IF ~key.ok THEN JSONDecodeError
        ELSE IF At(s, colon) # ":" THEN JSONDecodeError
        ELSE IF ~value.ok THEN JSONDecodeError
        ELSE IF At(s, j) = "}" THEN Ok(ObjVal(now), j + 1)
        ELSE IF At(s, j) # "," THEN JSONDecodeError
        ELSE IF At(s, q) # "\"" THEN JSONDecodeError
        ELSE JSONObject(s, q + 1, now)

\* json.decoder.JSONArray's loop; i is the index of the next item.
JSONArray(s, i, values) ==
    LET value == scan_once(s, i)
        j == SkipWS(s, value.e)
        now == Append(values, value.v)
    IN  IF ~value.ok THEN JSONDecodeError
        ELSE IF At(s, j) = "]" THEN Ok(ArrVal(now), j + 1)
        ELSE IF At(s, j) # "," THEN JSONDecodeError
        ELSE JSONArray(s, SkipWS(s, j + 1), now)

\* json.loads(s): one value between optional whitespace, and nothing after it.
json_loads(s) ==
    LET r == scan_once(s, SkipWS(s, 1))
    IN  IF r.ok /\ SkipWS(s, r.e) = Len(s) + 1 THEN r ELSE JSONDecodeError


(***************************************************************************)
(* Python values of the enrichment code.                                   *)
(***************************************************************************)
\* obj.get(key): the value of the member, None when the key is missing.
Get(o, key) ==
    IF \E m \in 1..Len(o) : o[m].k = key
        THEN (CHOOSE mem \in {o[m] : m \in 1..Len(o)} : mem.k = key).v
        ELSE None

\* bool(v): Python's truth value.
Truthy(val) ==
    CASE val.t = "str" -> val.s # ""
      [] val.t = "int" -> val.n # 0
      [] val.t = "float" -> val.n # 0
      [] val.t = "true" -> TRUE
      [] val.t \in {"arr", "obj"} -> val.c # <<>>
      [] OTHER -> FALSE

\* isinstance(v, int): an int, or a bool (bool is a subclass of int).
IsInt(val) == val.t \in {"int", "true", "false"}

\* The number an int or a bool stands for in arithmetic.
AsInt(val) == IF val.t = "int" THEN val.n ELSE IF val.t = "true" THEN 1 ELSE 0

\* obj.update(other): other's members assigned in order.
RECURSIVE Update(_, _)
Update(o, other) ==
    IF other = <<>> THEN o
    ELSE Update(SetItem(o, Head(other).k, Head(other).v), Tail(other))

\* int(a / b) for integers a, b with b # 0: the quotient truncated toward zero.
Trunc(a, b) ==
    LET abs(z) == IF z < 0 THEN 0 - z ELSE z
        m == abs(a) \div abs(b)
    IN  IF (a < 0) # (b < 0) THEN 0 - m ELSE m

(***************************************************************************)
(* The answers of the language model.  The system prompt asks for a JSON   *)
(* array of elements; nothing makes the model obey, so an answer is either *)
(* the serialisation of an array of flat objects or any text over a small  *)
(* alphabet of the characters the scanner tells apart.                     *)
(***************************************************************************)
EStr(chars) == [t |-> "str", chars |-> chars, n |-> 0]
EInt(k) == [t |-> "int", chars |-> <<>>, n |-> k]

K_type == <<"t", "y", "p", "e">>
K_content == <<"c", "o", "n", "t", "e", "n", "t">>
K_search == <<"s", "e", "a", "r", "c", "h">>
K_width == <<"w", "i", "d", "t", "h">>
K_speakAloud == <<"s", "p", "e", "a", "k", "A", "l", "o", "u", "d">>

\* {"type":"text","content":"}\"{\\"}: braces, a quote and a backslash inside a string
ElemText == << <<K_type, EStr(<<"t", "e", "x", "t">>)>>,
               <<K_content, EStr(<<"}", "\"", "{", "\\">>)>> >>
\* {"type":"image","search":"x","width":6,"speakAloud":"a"}
ElemImage == << <<K_type, EStr(<<"i", "m", "a", "g", "e">>)>>, <<K_search, EStr(<<"x">>)>>,
                <<K_width, EInt(6)>>, <<K_speakAloud, EStr(<<"a">>)>> >>
\* {}
ElemEmpty == <<>>

ElemPool == {ElemText, ElemImage, ElemEmpty}

MaxElems == 2

Arrays == UNION {[1..m -> ElemPool] : m \in 0..MaxElems}

\* json.dumps separators: (item separator, key separator), compact and Python's default.
Styles == {[item |-> <<",">>, key |-> <<":">>], [item |-> <<",", " ">>, key |-> <<":", " ">>]}

RECURSIVE Escape(_)
Escape(chars) ==
    IF chars = <<>> THEN <<>>
    ELSE (IF Head(chars) \in {"\"", "\\"} THEN <<"\\", Head(chars)>> ELSE <<Head(chars)>>)
         \o Escape(Tail(chars))

RECURSIVE IntChars(_)
IntChars(k) ==
    LET d == CHOOSE c \in DIGITS : DigitValue[c] = k % 10
    IN  IF k < 10 THEN <<d>> ELSE IntChars(k \div 10) \o <<d>>

DumpStr(chars) == <<"\"">> \o Escape(chars) \o <<"\"">>

DumpValue(ev) == IF ev.t = "str" THEN DumpStr(ev.chars) ELSE IntChars(ev.n)

RECURSIVE Joined(_, _)
\* sep.join(parts)
Joined(parts, sep) ==
    IF parts = <<>> THEN <<>>
    ELSE IF Len(parts) = 1 THEN parts[1]
    ELSE parts[1] \o sep \o Joined(Tail(parts), sep)

DumpObj(elem, sty) ==
    <<"{">> \o Joined([m \in 1..Len(elem) |-> DumpStr(elem[m][1]) \o sty.key \o DumpValue(elem[m][2])],
                    sty.item) \o <<"}">>

DumpArray(arr, sty) ==
    <<"[">> \o Joined([m \in 1..Len(arr) |-> DumpObj(arr[m], sty)], sty.item) \o <<"]">>

\* The dict a flat element is.
ElemValue(ev) == IF ev.t = "str" THEN StrVal(Str(ev.chars)) ELSE IntVal(ev.n)
ElemDict(elem) == [m \in 1..Len(elem) |-> [k |-> Str(elem[m][1]), v |-> ElemValue(elem[m][2])]]

ArrayTexts == {DumpArray(arr, sty) : arr \in Arrays, sty \in Styles}

Alphabet == {"{", "}", "\"", "\\", "a"}

MaxLen == 4

AnyTexts == UNION {[1..m -> Alphabet] : m \in 0..MaxLen}

\* Objects with nothing between them, as a model that forgets the array writes them.
Concat(arr, sty) == Joined([m \in 1..Len(arr) |-> DumpObj(arr[m], sty)], <<>>)

BackToBack == {<<ElemImage, ElemText>>, <<ElemEmpty, ElemEmpty>>}

BackToBackTexts == {Concat(arr, [item |-> <<",">>, key |-> <<":">>]) : arr \in BackToBack}

Compact == [item |-> <<",">>, key |-> <<":">>]

\* {a}: braces that balance around what is not JSON.
NotJSON == <<"{", "a", "}">>

\* A candidate that does not parse, then objects that do.
BrokenTexts == {NotJSON \o <<"{", "}">>, NotJSON \o DumpObj(ElemImage, Compact)}

\* {"type":"image","search":"","speakAloud":"a"}: an image with nothing to search for
ElemNoSearch == << <<K_type, EStr(<<"i", "m", "a", "g", "e">>)>>, <<K_search, EStr(<<>>)>>,
                   <<K_speakAloud, EStr(<<"a">>)>> >>

\* {"content":{"type":"image","search":"x"}}: an object inside an object
NestedText ==
    <<"{">> \o DumpStr(K_content) \o <<":">>
        \o DumpObj(<< <<K_type, EStr(<<"i", "m", "a", "g", "e">>)>>, <<K_search, EStr(<<"x">>)>> >>,
                   Compact)
        \o <<"}">>

OtherTexts == BrokenTexts \cup {DumpObj(ElemNoSearch, Compact), NestedText \o <<"{", "}">>}

Answers == ArrayTexts \cup BackToBackTexts \cup OtherTexts \cup AnyTexts


\* The streaming provider delivers a few characters per chunk; a provider that
\* does not stream delivers the whole answer as one chunk.
MaxChunk == 3

ChunkLens(fed, total) == {k \in 1..(total - fed) : k <= MaxChunk \/ (fed = 0 /\ k = total)}

(***************************************************************************)
(* State.  The globals of the module, and for every /api/reply request     *)
(* (a stream) the locals of its event_generator and sync_event_stream.     *)
(***************************************************************************)
Streams == {"s1", "s2"}

VARIABLES
    current_language,      \* current_language["lang"]
    voice_cache,           \* the languages whose PiperVoice is loaded
    text,                  \* what the language model will have said when it is done
    response_stream,       \* the completion: "none", "open", "exhausted" or "broken"
    pc,                    \* where event_generator stands
    lang, voice,           \* event_generator's lang and voice ("none": not bound)
    accumulated_content, delta, i,
    bracket_count, in_string, escape_next, object_start,
    obj,                   \* the object being enriched (its members), <<>> when none is
    image_data,            \* what the image search for obj returned or raised
    json_loads_calls,      \* history: the slices handed to json.loads, [start, end, ok]
    events,                \* history: what event_generator yielded
    q,                     \* sync_event_stream's queue
    cpc,                   \* where sync_event_stream stands
    delivered              \* what sync_event_stream yielded to the response

globals == <<current_language, voice_cache>>
scan == <<accumulated_content, delta, i, bracket_count, in_string, escape_next, object_start>>
consumer == <<cpc, delivered>>
vars == <<globals, text, response_stream, pc, lang, voice, scan, obj, image_data,
          json_loads_calls, events, q, consumer>>

\* VOICE_MODEL_PATHS' keys.
VOICE_MODEL_PATHS == {"en_US", "es_ES"}

\* The default width of an image whose element names no integer width.
DefaultWidth == 350

DONE == [kind |-> "done", obj |-> <<>>]
sentinel == [kind |-> "sentinel", obj |-> <<>>]
DataEvent(o) == [kind |-> "data", obj |-> o]
\* json.dumps({'error': str(e)})
ErrorEvent(msg) == [kind |-> "error", obj |-> <<[k |-> "error", v |-> StrVal(msg)]>>]

(***************************************************************************)
(* The scanner: one iteration of `for i, char in enumerate(delta)`.        *)
(***************************************************************************)
\* A slip: the index within the chunk taken for the position in the text.
PosInChunk(acc, d, k) == k

\* pos = len(accumulated_content) - len(delta) + i
Pos(acc, d, k) == Len(acc) - Len(d) + k

\* seq[a:b] for 0 <= a <= b <= len(seq)
Slice(seq, a, b) == SubSeq(seq, a + 1, b)

\* A slip: one set of scanner variables for all requests, those of the first.
ScanStateShared(s) ==
    [bracket_count |-> bracket_count["s1"], in_string |-> in_string["s1"],
     escape_next |-> escape_next["s1"], object_start |-> object_start["s1"]]

ScanState(s) ==
    [bracket_count |-> bracket_count[s], in_string |-> in_string[s],
     escape_next |-> escape_next[s], object_start |-> object_start[s]]

\* A slip: the braces counted before the string state is looked at.
StepCountsBracesInStrings(st, char, pos) ==
    IF char = "{" THEN
        [st EXCEPT !.object_start = IF st.bracket_count = 0 THEN pos ELSE @,
                   !.bracket_count = @ + 1]
    ELSE IF char = "}" THEN [st EXCEPT !.bracket_count = @ - 1]
    ELSE IF st.in_string THEN
        IF st.escape_next THEN [st EXCEPT !.escape_next = FALSE]
        ELSE IF char = "\\" THEN [st EXCEPT !.escape_next = TRUE]
        ELSE IF char = "\"" THEN [st EXCEPT !.in_string = FALSE]
        ELSE st
    ELSE IF char = "\"" THEN [st EXCEPT !.in_string = TRUE]
    ELSE st

\* A slip: the quote looked at before the pending escape.
StepQuoteBeforeEscape(st, char, pos) ==
    IF st.in_string THEN
        IF char = "\"" THEN [st EXCEPT !.in_string = FALSE, !.escape_next = FALSE]
        ELSE IF st.escape_next THEN [st EXCEPT !.escape_next = FALSE]
        ELSE IF char = "\\" THEN [st EXCEPT !.escape_next = TRUE]
        ELSE st
    ELSE IF char = "\"" THEN [st EXCEPT !.in_string = TRUE]
    ELSE IF char = "{" THEN
        [st EXCEPT !.object_start = IF st.bracket_count = 0 THEN pos ELSE @,
                   !.bracket_count = @ + 1]
    ELSE IF char = "}" THEN [st EXCEPT !.bracket_count = @ - 1]
    ELSE st

\* A slip: every opening brace outside a string is taken for an object's start.
StepStartsAtEveryBrace(st, char, pos) ==
    IF st.in_string THEN
        IF st.escape_next THEN [st EXCEPT !.escape_next = FALSE]
        ELSE IF char = "\\" THEN [st EXCEPT !.escape_next = TRUE]
        ELSE IF char = "\"" THEN [st EXCEPT !.in_string = FALSE]
        ELSE st
    ELSE IF char = "\"" THEN [st EXCEPT !.in_string = TRUE]
    ELSE IF char = "{" THEN [st EXCEPT !.object_start = pos, !.bracket_count = @ + 1]
    ELSE IF char = "}" THEN [st EXCEPT !.bracket_count = @ - 1]
    ELSE st

\* A slip: object_start is assigned once, at the first object, and kept.
StepKeepsFirstStart(st, char, pos) ==
    IF st.in_string THEN
        IF st.escape_next THEN [st EXCEPT !.escape_next = FALSE]
        ELSE IF char = "\\" THEN [st EXCEPT !.escape_next = TRUE]
        ELSE IF char = "\"" THEN [st EXCEPT !.in_string = FALSE]
        ELSE st
    ELSE IF char = "\"" THEN [st EXCEPT !.in_string = TRUE]
    ELSE IF char = "{" THEN
        [st EXCEPT !.object_start = IF st.bracket_count = 0 /\ @ = -1 THEN pos ELSE @,
                   !.bracket_count = @ + 1]
    ELSE IF char = "}" THEN [st EXCEPT !.bracket_count = @ - 1]
    ELSE st

\* The state after char at position pos.
Step(st, char, pos) ==
    IF st.in_string THEN
        IF st.escape_next THEN [st EXCEPT !.escape_next = FALSE]
        ELSE IF char = "\\" THEN [st EXCEPT !.escape_next = TRUE]
        ELSE IF char = "\"" THEN [st EXCEPT !.in_string = FALSE]
        ELSE st
    ELSE IF char = "\"" THEN [st EXCEPT !.in_string = TRUE]
    ELSE IF char = "{" THEN
        [st EXCEPT !.object_start = IF st.bracket_count = 0 THEN pos ELSE @,
                   !.bracket_count = @ + 1]
    ELSE IF char = "}" THEN [st EXCEPT !.bracket_count = @ - 1]
    ELSE st

\* Whether char, scanned in state st, ends a candidate: the test of line 389.
Closes(st, char) ==
    /\ ~st.in_string
    /\ char = "}"
    /\ st.bracket_count - 1 = 0
    /\ st.object_start # -1

(***************************************************************************)
(* Enrichment.                                                             *)
(***************************************************************************)
\* str(v), as the f-string of the error message formats the search term.
PyStr(val) ==
    CASE val.t = "str" -> val.s
      [] val.t = "int" -> IF val.n < 0 THEN "-" \o Str(IntChars(0 - val.n)) ELSE Str(IntChars(val.n))
      [] val.t = "float" -> val.s
      [] val.t = "true" -> "True"
      [] val.t = "false" -> "False"
      [] val.t = "null" -> "None"
      [] OTHER -> "<repr>"

\* What search_for_image_on_unsplash does: raise, or return image_data.  The
\* provider's width and height are first_image.get(...): an int or None.  The
\* sizes are such that height / width is exact in binary floating point.
SearchOutcomes ==
    {[raises |-> e, imageUrl |-> "", width |-> None, height |-> None] :
        e \in {"ConnectionError", "HTTPStatusError", "FileNotFoundError", "ValueError",
               "JSONDecodeError"}}
    \cup {[raises |-> "", imageUrl |-> "https://images/x", width |-> w, height |-> h] :
            w \in {IntVal(8), IntVal(0), None}, h \in {IntVal(5), None}}

\* No search was made for the object at hand.
NoSearch == [raises |-> "none", imageUrl |-> "", width |-> None, height |-> None]

\* A slip: the failure is written into the object, which stays an image.
SearchFailedKeepsType(o) ==
    Update(o, << [k |-> "content",
                  v |-> StrVal("**Error:** Could not find image for '"
                               \o PyStr(Get(o, "search")) \o "'")],
                 [k |-> "textColor", v |-> StrVal("#ef4444")] >>)

\* The except branch of the image search: the element becomes a text naming the term.
SearchFailed(o) ==
    Update(o, << [k |-> "type", v |-> StrVal("text")],
                 [k |-> "content",
                  v |-> StrVal("**Error:** Could not find image for '"
                               \o PyStr(Get(o, "search")) \o "'")],
                 [k |-> "textColor", v |-> StrVal("#ef4444")] >>)

\* int(final_width * aspect_ratio), aspect_ratio = height / width if width > 0 else 1
ScaledHeight(final_width, width, height) ==
    IF width > 0 THEN Trunc(final_width * height, width) ELSE final_width

\* Lines 395-410 on the outcome of the search.
ImageUpdate(o, out) ==
    LET final_width == IF IsInt(Get(o, "width")) THEN Get(o, "width") ELSE IntVal(DefaultWidth)
    IN  IF out.raises # "" THEN SearchFailed(o)
        \* None > 0, or None / width: a TypeError, caught like the others
        ELSE IF out.width.t # "int" THEN SearchFailed(o)
        ELSE IF out.width.n > 0 /\ out.height.t # "int" THEN SearchFailed(o)
        ELSE Update(o, << [k |-> "imageUrl", v |-> StrVal(out.imageUrl)],
                          [k |-> "width", v |-> final_width],
                          [k |-> "height",
                           v |-> IntVal(ScaledHeight(AsInt(final_width), out.width.n,
                                                     out.height.n))] >>)

\* A slip: a synthesis that raised leaves the object without the key.
AudioUpdateOmitsOnFailure(o, ok) ==
    IF ok
        THEN SetItem(o, "audioDataUrl",
                     StrVal("data:audio/wav;base64,<" \o PyStr(Get(o, "speakAloud")) \o ">"))
        ELSE o

\* Lines 416-423 on the outcome of voice.synthesize_wav.
AudioUpdate(o, ok) ==
    SetItem(o, "audioDataUrl",
            IF ok THEN StrVal("data:audio/wav;base64,<" \o PyStr(Get(o, "speakAloud")) \o ">")
            ELSE None)

\* A slip: every image is searched for, whatever its search field.
WantsImageAnyTerm(o) == Get(o, "type") = StrVal("image")

\* Line 394: whether the image search runs.
WantsImage(o) == Get(o, "type") = StrVal("image") /\ Truthy(Get(o, "search"))

\* Line 414: whether the narration is synthesised; a bound voice is a truthy object.
WantsAudio(o, v) == Truthy(Get(o, "speakAloud")) /\ v # "none"

AfterSearch(o, v) == IF WantsAudio(o, v) THEN "tts" ELSE "yield"
\* A slip: the parsed object is put aside and the next chunk is pulled.
AfterParseNextChunk(o, v) == "pull"

AfterParse(o, v) == IF WantsImage(o) THEN "search" ELSE AfterSearch(o, v)

\* Where the for loop stands once an iteration is over.
Continue(s) == IF i'[s] < Len(delta[s]) THEN "scan" ELSE "pull"

\* A slip: a slice that does not parse has the rest of its chunk skipped.
AfterDecodeErrorNextChunk(s) == "pull"

\* Lines 426-427: `except json.JSONDecodeError: pass`, and the for loop goes on.
AfterDecodeError(s) == Continue(s)

\* A slip: the chunk at hand is given up once an object has been yielded.
AfterYieldNextChunk(s) == "pull"

\* Where the generator resumes after the yield of line 425: i is already past
\* the closing brace.
AfterYield(s) == IF i[s] < Len(delta[s]) THEN "scan" ELSE "pull"

(***************************************************************************)
(* event_generator                                                         *)
(***************************************************************************)
\* A slip: the failure is reported and the loop goes on with the next chunk.
RaiseAndGoOn(s, msg) ==
    /\ events' = [events EXCEPT ![s] = Append(@, ErrorEvent(msg))]
    /\ q' = [q EXCEPT ![s] = Append(@, ErrorEvent(msg))]
    /\ pc' = [pc EXCEPT ![s] = "pull"]

\* The except branch of line 431: the error event, and the generator ends.
Raise(s, msg) ==
    /\ events' = [events EXCEPT ![s] = Append(@, ErrorEvent(msg))]
    /\ q' = [q EXCEPT ![s] = Append(@, ErrorEvent(msg))]
    /\ pc' = [pc EXCEPT ![s] = "finish"]

\* Lines 352-363: the language is read, the voice fetched (and loaded when it is
\* not cached), the completion requested.
Start(s) ==
    /\ pc[s] = "start"
    /\ lang' = [lang EXCEPT ![s] = current_language]
    /\ \E loads \in BOOLEAN, created \in BOOLEAN :
        LET supported == current_language \in VOICE_MODEL_PATHS
            cached == current_language \in voice_cache
            got == supported /\ (cached \/ loads)
        IN  /\ voice_cache' = IF got THEN voice_cache \cup {current_language} ELSE voice_cache
            /\ voice' = [voice EXCEPT ![s] = IF got THEN current_language ELSE "none"]
            /\ IF ~supported
                   THEN Raise(s, "400 Bad Request: Unsupported language: " \o current_language)
               ELSE IF ~got
                   THEN Raise(s, "500 Internal Server Error: TTS model could not be loaded for language '"
                                 \o current_language \o "'.")
               ELSE IF ~created THEN Raise(s, "Connection error.")
               ELSE /\ pc' = [pc EXCEPT ![s] = "pull"]
                    /\ UNCHANGED <<events, q>>
            /\ response_stream' =
                   [response_stream EXCEPT ![s] = IF ~got THEN "none"
                                                 ELSE IF created THEN "open" ELSE "broken"]
    /\ UNCHANGED <<current_language, text, scan, obj, image_data, json_loads_calls, consumer>>

\* Lines 371-374: the next chunk with a non-empty delta.  (A chunk whose delta
\* is empty or None changes nothing: `continue`.)
Pull(s) ==
    /\ pc[s] = "pull"
    /\ \E k \in ChunkLens(Len(accumulated_content[s]), Len(text[s])) :
        LET d == SubSeq(text[s], Len(accumulated_content[s]) + 1, Len(accumulated_content[s]) + k)
        IN  /\ delta' = [delta EXCEPT ![s] = d]
            /\ accumulated_content' = [accumulated_content EXCEPT ![s] = @ \o d]
    /\ i' = [i EXCEPT ![s] = 0]
    /\ pc' = [pc EXCEPT ![s] = "scan"]
    /\ UNCHANGED <<globals, text, response_stream, lang, voice, bracket_count, in_string,
                   escape_next, object_start, obj, image_data, json_loads_calls, events, q,
                   consumer>>

\* Lines 376-392: one character; a candidate that parses goes on to enrichment.
ScanChar(s) ==
    /\ pc[s] = "scan"
    /\ LET char == delta[s][i[s] + 1]
           pos == Pos(accumulated_content[s], delta[s], i[s])
           st == ScanState(s)
           nxt == Step(st, char, pos)
           closes == Closes(st, char)
           loaded == json_loads(Slice(accumulated_content[s], nxt.object_start, pos + 1))
       IN  /\ bracket_count' = [bracket_count EXCEPT ![s] = nxt.bracket_count]
           /\ in_string' = [in_string EXCEPT ![s] = nxt.in_string]
           /\ escape_next' = [escape_next EXCEPT ![s] = nxt.escape_next]
           /\ object_start' = [object_start EXCEPT ![s] = nxt.object_start]
           /\ i' = [i EXCEPT ![s] = @ + 1]
           /\ IF closes
                  THEN /\ json_loads_calls' =
                            [json_loads_calls EXCEPT
                                ![s] = Append(@, [start |-> nxt.object_start, end |-> pos,
                                                  ok |-> loaded.ok])]
                       /\ IF loaded.ok
                              THEN /\ obj' = [obj EXCEPT ![s] = loaded.v.c]
                                   /\ pc' = [pc EXCEPT ![s] = AfterParse(loaded.v.c, voice[s])]
                              ELSE /\ obj' = obj
                                   /\ pc' = [pc EXCEPT ![s] = AfterDecodeError(s)]
                  ELSE /\ UNCHANGED <<json_loads_calls, obj>>
                       /\ pc' = [pc EXCEPT ![s] = Continue(s)]
    /\ UNCHANGED <<globals, text, response_stream, lang, voice, accumulated_content, delta,
                   image_data, events, q, consumer>>

\* Lines 394-410: the image search returns or raises.
ImageSearch(s) ==
    /\ pc[s] = "search"
    /\ \E out \in SearchOutcomes :
        /\ image_data' = [image_data EXCEPT ![s] = out]
        /\ obj' = [obj EXCEPT ![s] = ImageUpdate(@, out)]
        /\ pc' = [pc EXCEPT ![s] = AfterSearch(ImageUpdate(obj[s], out), voice[s])]
    /\ UNCHANGED <<globals, text, response_stream, lang, voice, scan, json_loads_calls, events,
                   q, consumer>>

\* Lines 413-423: the synthesis returns or raises.
Synthesize(s) ==
    /\ pc[s] = "tts"
    /\ \E ok \in BOOLEAN : obj' = [obj EXCEPT ![s] = AudioUpdate(@, ok)]
    /\ pc' = [pc EXCEPT ![s] = "yield"]
    /\ UNCHANGED <<globals, text, response_stream, lang, voice, scan, image_data,
                   json_loads_calls, events, q, consumer>>

\* Line 425, and async_runner's q.put(item): the data event.  (obj and image_data
\* are not read again before they are bound anew; the model forgets them here.)
Yield(s) ==
    /\ pc[s] = "yield"
    /\ events' = [events EXCEPT ![s] = Append(@, DataEvent(obj[s]))]
    /\ q' = [q EXCEPT ![s] = Append(@, DataEvent(obj[s]))]
    /\ obj' = [obj EXCEPT ![s] = <<>>]
    /\ image_data' = [image_data EXCEPT ![s] = NoSearch]
    /\ pc' = [pc EXCEPT ![s] = AfterYield(s)]
    /\ UNCHANGED <<globals, text, response_stream, lang, voice, scan, json_loads_calls, consumer>>

\* A slip: a stream that ends inside an object or a string is taken for a failure.
ExhaustBalanced(s) ==
    /\ pc[s] = "pull"
    /\ accumulated_content[s] = text[s]
    /\ IF bracket_count[s] = 0 /\ ~in_string[s]
           THEN /\ events' = [events EXCEPT ![s] = Append(@, DONE)]
                /\ q' = [q EXCEPT ![s] = Append(@, DONE)]
                /\ pc' = [pc EXCEPT ![s] = "finish"]
           ELSE Raise(s, "Incomplete answer.")
    /\ response_stream' = [response_stream EXCEPT ![s] = "exhausted"]
    /\ UNCHANGED <<globals, text, lang, voice, scan, obj, image_data, json_loads_calls, consumer>>

\* Lines 429-430: the token stream is exhausted.
Exhaust(s) ==
    /\ pc[s] = "pull"
    /\ accumulated_content[s] = text[s]
    /\ events' = [events EXCEPT ![s] = Append(@, DONE)]
    /\ q' = [q EXCEPT ![s] = Append(@, DONE)]
    /\ pc' = [pc EXCEPT ![s] = "finish"]
    /\ response_stream' = [response_stream EXCEPT ![s] = "exhausted"]
    /\ UNCHANGED <<globals, text, lang, voice, scan, obj, image_data, json_loads_calls, consumer>>

\* Line 371 raising: the connection to the provider breaks, or a chunk has no choices.
ProducerError(s) ==
    /\ pc[s] = "pull"
    /\ Raise(s, "Connection error.")
    /\ response_stream' = [response_stream EXCEPT ![s] = "broken"]
    /\ UNCHANGED <<globals, text, lang, voice, scan, obj, image_data, json_loads_calls, consumer>>

\* A slip: the thread ends without putting the sentinel.
FinishNoSentinel(s) ==
    /\ pc[s] = "finish"
    /\ pc' = [pc EXCEPT ![s] = "done"]
    /\ UNCHANGED <<globals, text, response_stream, lang, voice, scan, obj, image_data,
                   json_loads_calls, events, q, consumer>>

\* Line 452: event_generator is over, async_runner puts the sentinel and the thread ends.
Finish(s) ==
    /\ pc[s] = "finish"
    /\ q' = [q EXCEPT ![s] = Append(@, sentinel)]
    /\ pc' = [pc EXCEPT ![s] = "done"]
    /\ UNCHANGED <<globals, text, response_stream, lang, voice, scan, obj, image_data,
                   json_loads_calls, events, consumer>>

(***************************************************************************)
(* sync_event_stream, the generator the response iterates.                 *)
(***************************************************************************)
\* Lines 445-456: the first next() creates the queue and starts the runner thread.
StartThread(s) ==
    /\ cpc[s] = "new"
    /\ cpc' = [cpc EXCEPT ![s] = "get"]
    /\ pc' = [pc EXCEPT ![s] = "start"]
    /\ UNCHANGED <<globals, text, response_stream, lang, voice, scan, obj, image_data,
                   json_loads_calls, events, q, delivered>>

\* Lines 458-461: q.get() returns; the sentinel breaks the loop, an item is yielded.
QGet(s) ==
    /\ cpc[s] = "get"
    /\ q[s] # <<>>
    /\ q' = [q EXCEPT ![s] = Tail(@)]
    /\ IF Head(q[s]) = sentinel
           THEN /\ cpc' = [cpc EXCEPT ![s] = "join"]
                /\ delivered' = delivered
           ELSE /\ cpc' = [cpc EXCEPT ![s] = "yield"]
                /\ delivered' = [delivered EXCEPT ![s] = Append(@, Head(q[s]))]
    /\ UNCHANGED <<globals, text, response_stream, pc, lang, voice, scan, obj, image_data,
                   json_loads_calls, events>>

\* The response asks for the next item: the generator resumes after its yield.
Resume(s) ==
    /\ cpc[s] = "yield"
    /\ cpc' = [cpc EXCEPT ![s] = "get"]
    /\ UNCHANGED <<globals, text, response_stream, pc, lang, voice, scan, obj, image_data,
                   json_loads_calls, events, q, delivered>>

\* The client is gone: the server closes the generator, GeneratorExit is raised
\* at its yield (or it never starts).  No finally: nothing tells the thread.
Disconnect(s) ==
    /\ cpc[s] \in {"new", "yield"}
    /\ cpc' = [cpc EXCEPT ![s] = "closed"]
    /\ UNCHANGED <<globals, text, response_stream, pc, lang, voice, scan, obj, image_data,
                   json_loads_calls, events, q, delivered>>

\* Line 462: thread.join() returns when the runner thread has ended.
Join(s) ==
    /\ cpc[s] = "join"
    /\ pc[s] = "done"
    /\ cpc' = [cpc EXCEPT ![s] = "end"]
    /\ UNCHANGED <<globals, text, response_stream, pc, lang, voice, scan, obj, image_data,
                   json_loads_calls, events, q, delivered>>

(***************************************************************************)
(* /api/set-language                                                       *)
(***************************************************************************)
\* lang.replace("-", "_")
Replace(chars) == [m \in 1..Len(chars) |-> IF chars[m] = "-" THEN "_" ELSE chars[m]]

\* The languages the frontend may post.
LangRequests == {<<"e", "n", "-", "U", "S">>, <<"f", "r", "-", "F", "R">>}

\* A slip: the running streams take the new language as theirs at once.
SetLanguageRebinds(l) ==
    /\ l # <<>>
    /\ current_language' = Str(Replace(l))
    /\ lang' = [s \in Streams |-> IF lang[s] = "none" THEN "none" ELSE Str(Replace(l))]
    /\ voice' = [s \in Streams |-> IF voice[s] = "none" THEN "none" ELSE Str(Replace(l))]
    /\ UNCHANGED <<voice_cache, text, response_stream, pc, scan, obj, image_data,
                   json_loads_calls, events, q, consumer>>

\* Lines 469-475; an empty lang is refused with 400 and changes nothing.
SetLanguage(l) ==
    /\ l # <<>>
    /\ current_language' = Str(Replace(l))
    /\ UNCHANGED <<voice_cache, text, response_stream, pc, lang, voice, scan, obj, image_data,
                   json_loads_calls, events, q, consumer>>

(***************************************************************************)
(* Specifications.                                                         *)
(***************************************************************************)
\* The locals of a stream whose generators have not started.
FreshLocals ==
    /\ lang = [s \in Streams |-> "none"]
    /\ voice = [s \in Streams |-> "none"]
    /\ accumulated_content = [s \in Streams |-> <<>>]
    /\ delta = [s \in Streams |-> <<>>]
    /\ i = [s \in Streams |-> 0]
    /\ bracket_count = [s \in Streams |-> 0]
    /\ in_string = [s \in Streams |-> FALSE]
    /\ escape_next = [s \in Streams |-> FALSE]
    /\ object_start = [s \in Streams |-> -1]
    /\ obj = [s \in Streams |-> <<>>]
    /\ image_data = [s \in Streams |-> NoSearch]
    /\ response_stream = [s \in Streams |-> "none"]
    /\ json_loads_calls = [s \in Streams |-> <<>>]
    /\ events = [s \in Streams |-> <<>>]
    /\ q = [s \in Streams |-> <<>>]
    /\ delivered = [s \in Streams |-> <<>>]

\* One request; the second stream is not used.
Fresh(first) ==
    /\ pc = [s \in Streams |-> IF s = "s1" THEN first ELSE "idle"]
    /\ FreshLocals

\* The globals as the module sets them (lines 45 and 71).
InitGlobals ==
    /\ current_language = "en_US"
    /\ voice_cache = {}

\* One request whose runner thread has just started and whose client stays: the
\* scanner on every answer.  The second stream is not used.
InitScan ==
    /\ InitGlobals
    /\ \E t \in Answers : text = [s \in Streams |-> IF s = "s1" THEN t ELSE <<>>]
    /\ Fresh("start")
    /\ cpc = [s \in Streams |-> IF s = "s1" THEN "get" ELSE "off"]

\* {"speakAloud":"a"}
ElemSpoken == << <<K_speakAloud, EStr(<<"a">>)>> >>
\* {"type":"image","search":"x"}
ElemSearch == << <<K_type, EStr(<<"i", "m", "a", "g", "e">>)>>, <<K_search, EStr(<<"x">>)>> >>

\* The answers of the requests that run beside their client and /api/set-language.
ServedAnswers ==
    {DumpArray(arr, [item |-> <<",">>, key |-> <<":">>]) :
        arr \in UNION {[1..m -> {ElemSpoken, ElemSearch}] : m \in 0..MaxElems}}

\* One request just accepted: the response holds sync_event_stream, not yet started.
Init ==
    /\ InitGlobals
    /\ \E t \in ServedAnswers : text = [s \in Streams |-> IF s = "s1" THEN t ELSE <<>>]
    /\ Fresh("idle")
    /\ cpc = [s \in Streams |-> IF s = "s1" THEN "new" ELSE "off"]

Generator(s) ==
    \/ Start(s)
    \/ Pull(s)
    \/ ScanChar(s)
    \/ ImageSearch(s)
    \/ Synthesize(s)
    \/ Yield(s)
    \/ Exhaust(s)
    \/ ProducerError(s)
    \/ Finish(s)

NextScan == \E s \in {"s1"} : Generator(s)

SpecScan == InitScan /\ [][NextScan]_vars

Consumer(s) ==
    \/ StartThread(s)
    \/ QGet(s)
    \/ Resume(s)
    \/ Disconnect(s)
    \/ Join(s)

Next ==
    \/ \E s \in Streams : Generator(s)
    \/ \E s \in Streams : Consumer(s)
    \/ \E l \in LangRequests : SetLanguage(l)

Spec == Init /\ [][Next]_vars


\* Two requests served at once, each in its own call of reply_stream with its
\* own runner thread: a short answer for the first, an object with an image and
\* a narration for the second.
ShortAnswers == {<<"{", "}">>, <<"{", "\"", "{">>}

ElemBoth == << <<K_type, EStr(<<"i", "m", "a", "g", "e">>)>>, <<K_search, EStr(<<"x">>)>>,
               <<K_speakAloud, EStr(<<"a">>)>> >>

InitTwo ==
    /\ InitGlobals
    /\ \E t \in ShortAnswers :
        text = [s \in Streams |->
                   IF s = "s1" THEN t ELSE DumpObj(ElemBoth, [item |-> <<",">>, key |-> <<":">>])]
    /\ pc = [s \in Streams |-> "start"]
    /\ FreshLocals
    /\ cpc = [s \in Streams |-> "get"]

NextTwo ==
    \/ \E s \in Streams : Generator(s)
    \/ \E s \in Streams : QGet(s) \/ Resume(s) \/ Join(s)

SpecTwo == InitTwo /\ [][NextTwo]_vars

\* One request and its client, on an answer of two objects and on an image with
\* a narration, with what the scheduling gives: a started thread runs, awaited
\* calls return, the provider's stream ends or breaks; a q.get() on a queue that
\* is not empty returns and join() returns once the thread is over; and the
\* server, holding an item, asks for the next or closes the generator.
\* The answers carry no type and no speakAloud, so that the generator goes from
\* the parse straight to the yield (lines 394 and 413 are skipped).
BridgeAnswers == {<<"{", "}", "{", "}">>, NotJSON \o <<"{", "}">>}

InitBridge ==
    /\ InitGlobals
    /\ \E t \in BridgeAnswers : text = [s \in Streams |-> IF s = "s1" THEN t ELSE <<>>]
    /\ Fresh("idle")
    /\ cpc = [s \in Streams |-> IF s = "s1" THEN "new" ELSE "off"]

\* The generator's steps on such answers.
PlainGenerator(s) ==
    \/ Start(s)
    \/ Pull(s)
    \/ ScanChar(s)
    \/ Yield(s)
    \/ Exhaust(s)
    \/ ProducerError(s)
    \/ Finish(s)

NextBridge == PlainGenerator("s1") \/ Consumer("s1")

Fairness ==
    /\ WF_vars(PlainGenerator("s1"))
    /\ WF_vars(StartThread("s1") \/ QGet("s1") \/ Join("s1"))
    /\ WF_vars(Resume("s1") \/ Disconnect("s1"))

SpecBridge == InitBridge /\ [][NextBridge]_vars /\ Fairness

(***************************************************************************)
(* What the claims speak of.                                               *)
(***************************************************************************)
IsData(e) == e.kind = "data"
IsOk(call) == call.ok
Last(seq) == seq[Len(seq)]

\* The data events a stream's generator has yielded, in order.
DataEvents(s) == SelectSeq(events[s], IsData)

OkCalls(calls) == SelectSeq(calls, IsOk)

\* The fields enrichment sets or overwrites.
EnrichmentKeys == {"imageUrl", "width", "height", "type", "content", "textColor", "audioDataUrl"}
NotEnrichment(mem) == mem.k \notin EnrichmentKeys
Strip(o) == SelectSeq(o, NotEnrichment)

NotAudio(mem) == mem.k # "audioDataUrl"

\* The event's object d carries the parsed object o: as it is, but for the
\* audio, when no image is searched for; apart from the fields the image
\* logic writes otherwise.
Carries(d, o) == IF WantsImage(o) THEN Strip(d) = Strip(o) ELSE SelectSeq(d, NotAudio) = o

\* The generator has yielded the completion sentinel last.
EndedWithDone(s) == events[s] # <<>> /\ Last(events[s]) = DONE

\* The object a slice of the scanned text parses to.
Loaded(s, call) == json_loads(Slice(accumulated_content[s], call.start, call.end + 1)).v

\* The scanner's state before the first character.
ScanStart == [bracket_count |-> 0, in_string |-> FALSE, escape_next |-> FALSE, object_start |-> -1]

\* One character of t, at index k, scanned as lines 376-392 scan it when t
\* is the chunk at hand and the accumulated content at once.
OneChar(t, k, a) ==
    [st |-> Step(a.st, t[k + 1], k),
     calls |-> IF Closes(a.st, t[k + 1])
                 THEN Append(a.calls,
                             [start |-> a.st.object_start, end |-> k,
                              ok |-> json_loads(Slice(t, a.st.object_start, k + 1)).ok])
                 ELSE a.calls]

RECURSIVE OneChunk(_, _, _)
\* The slices the loop hands to json.loads when t arrives as one chunk, from
\* index k on.  bracket_count never exceeds the number of characters; the
\* test has the accumulator evaluated character by character.
OneChunk(t, k, a) ==
    IF k = Len(t) \/ a.st.bracket_count > Len(t) THEN a
    ELSE OneChunk(t, k + 1, OneChar(t, k, a))

RefCalls(t) == OneChunk(t, 0, [st |-> ScanStart, calls |-> <<>>]).calls

\* The generator has yielded [DONE] and is about to return.
JustDone(s) == pc[s] = "finish" /\ EndedWithDone(s)

\* A parsed text is an array of objects whose members are scalars.
IsFlatArray(r) ==
    /\ r.ok
    /\ r.v.t = "arr"
    /\ \A m \in 1..Len(r.v.c) :
        /\ r.v.c[m].t = "obj"
        /\ \A n \in 1..Len(r.v.c[m].c) : r.v.c[m].c[n].v.t \notin {"arr", "obj"}

(***************************************************************************)
(* C1.  When the answer is a valid JSON array of flat objects, then however *)
(* it was cut into chunks, once the stream has ended with [DONE] the        *)
(* slices the scanner parsed are the array's elements, each once and in     *)
(* the array's order, every one of them parsed, and the data events are     *)
(* these elements in this order, enrichment fields aside.                   *)
(***************************************************************************)
C1_ArrayElementsEmitted ==
    \A s \in Streams :
        JustDone(s) =>
            LET whole == json_loads(text[s])
                calls == json_loads_calls[s]
                data == DataEvents(s)
            IN  IsFlatArray(whole) =>
                    /\ Len(calls) = Len(whole.v.c)
                    /\ Len(data) = Len(whole.v.c)
                    /\ \A m \in 1..Len(calls) :
                        /\ calls[m].ok
                        /\ Loaded(s, calls[m]) = whole.v.c[m]
                        /\ Carries(data[m].obj, whole.v.c[m].c)

\* An array of two elements, the first with braces, a quote and a backslash in
\* a string, has been served to the end, the last chunk being one character.
C1_Witness ==
    /\ JustDone("s1")
    /\ Len(DataEvents("s1")) = 2
    /\ Len(delta["s1"]) = 1
    /\ text["s1"] = DumpArray(<<ElemText, ElemImage>>, [item |-> <<",">>, key |-> <<":">>])
    /\ IsFlatArray(json_loads(text["s1"]))

(***************************************************************************)
(* C2.  What the scanner hands to json.loads depends on the text alone:     *)
(* when the stream has ended, the slices (start, end, parsed or not) are    *)
(* those of the same text scanned as a single chunk, in the same order,     *)
(* and there is one data event per slice that parsed.  An object cut by a   *)
(* chunk boundary is therefore parsed once, with the chunk that closes it.  *)
(***************************************************************************)
C2_ChunkingIrrelevant ==
    \A s \in Streams :
        JustDone(s) =>
            /\ json_loads_calls[s] = RefCalls(text[s])
            /\ Len(DataEvents(s)) = Len(OkCalls(json_loads_calls[s]))

\* The object {} was cut between its braces: the chunk at hand starts with its
\* closing brace, and it has been emitted, once.
C2_Witness ==
    /\ pc["s1"] = "pull"
    /\ Len(accumulated_content["s1"]) >= 2
    /\ Len(delta["s1"]) = 1
    /\ json_loads_calls["s1"] =
           <<[start |-> Len(accumulated_content["s1"]) - 2,
              end |-> Len(accumulated_content["s1"]) - 1, ok |-> TRUE]>>
    /\ Len(DataEvents("s1")) = 1

(***************************************************************************)
(* C3.  A character scanned while in_string holds leaves bracket_count as   *)
(* it is, hands nothing to json.loads and starts no enrichment.             *)
(***************************************************************************)
C3_StringsHideBraces ==
    [][\A s \in Streams :
          (pc[s] = "scan" /\ in_string[s] /\ i'[s] = i[s] + 1) =>
              /\ bracket_count'[s] = bracket_count[s]
              /\ object_start'[s] = object_start[s]
              /\ json_loads_calls'[s] = json_loads_calls[s]
              /\ obj'[s] = obj[s]
              /\ pc'[s] \in {"scan", "pull"}]_vars

\* A closing brace has just been scanned inside the string of an open object.
C3_Witness ==
    /\ in_string["s1"]
    /\ bracket_count["s1"] = 1
    /\ i["s1"] >= 1
    /\ delta["s1"][i["s1"]] = "}"
    /\ json_loads_calls["s1"] = <<>>

(***************************************************************************)
(* C4.  The character scanned while an escape is pending is consumed       *)
(* without interpretation, a quote included: escape_next is cleared,       *)
(* in_string stays true, the braces are not counted and nothing is handed  *)
(* to json.loads.  Pulling the next chunk leaves in_string and escape_next *)
(* as they are, so the same holds when the backslash ended a chunk.        *)
(***************************************************************************)
C4_EscapedCharConsumed ==
    [][\A s \in Streams :
          /\ (pc[s] = "scan" /\ in_string[s] /\ escape_next[s] /\ i'[s] = i[s] + 1) =>
                /\ in_string'[s]
                /\ ~escape_next'[s]
                /\ bracket_count'[s] = bracket_count[s]
                /\ object_start'[s] = object_start[s]
                /\ json_loads_calls'[s] = json_loads_calls[s]
          /\ (pc[s] = "pull" /\ pc'[s] = "scan") =>
                /\ in_string'[s] = in_string[s]
                /\ escape_next'[s] = escape_next[s]]_vars

\* A string was opened and a backslash ended the first chunk; the second chunk
\* is a quote, and it has just been scanned.
C4_Witness ==
    /\ accumulated_content["s1"] = <<"\"", "\\", "\"">>
    /\ delta["s1"] = <<"\"">>
    /\ i["s1"] = 1
    /\ in_string["s1"]
    /\ ~escape_next["s1"]

\* The chunk at hand is the accumulated content and has been scanned to its end.
FirstChunkScanned(s) == pc[s] = "pull" /\ delta[s] # <<>> /\ delta[s] = accumulated_content[s]

\* The chunks made of the objects of arr and of nothing else that counts:
\* back to back, or as the array that json.dumps writes.
ChunksOf(arr) == {Concat(arr, sty) : sty \in Styles} \cup {DumpArray(arr, sty) : sty \in Styles}

\* Every such chunk, with the objects it is made of.
ObjectChunks == UNION {{[arr |-> arr, chunk |-> c] : c \in ChunksOf(arr)} : arr \in Arrays}

(***************************************************************************)
(* C5.  When one chunk holds several complete top-level objects, back to   *)
(* back or as the elements of an array, then once the chunk is scanned     *)
(* there is one data event per object, in the order of the objects in the  *)
(* chunk, each carrying the members of its own object and of no other      *)
(* (enrichment fields aside), and each object was parsed from its own      *)
(* slice.                                                                   *)
(***************************************************************************)
C5_EachObjectItsOwnEvent ==
    \A s \in Streams :
        FirstChunkScanned(s) =>
            \A oc \in ObjectChunks :
                delta[s] = oc.chunk =>
                    LET data == DataEvents(s)
                        calls == json_loads_calls[s]
                    IN  /\ Len(data) = Len(oc.arr)
                        /\ Len(calls) = Len(oc.arr)
                        /\ \A m \in 1..Len(oc.arr) :
                            /\ Carries(data[m].obj, ElemDict(oc.arr[m]))
                            /\ calls[m].ok
                            /\ Loaded(s, calls[m]).c = ElemDict(oc.arr[m])
                            /\ m > 1 => calls[m - 1].end < calls[m].start

\* {"type":"image",...}{"type":"text",...} came as one chunk: the image was
\* searched for, and the text after it has its own event.
C5_Witness ==
    /\ FirstChunkScanned("s1")
    /\ delta["s1"] = Concat(<<ElemImage, ElemText>>, [item |-> <<",">>, key |-> <<":">>])
    /\ Len(DataEvents("s1")) = 2
    /\ Get(DataEvents("s1")[1].obj, "search") = StrVal("x")
    /\ Get(DataEvents("s1")[2].obj, "type") = StrVal("text")

\* The objects that parsed and whose slice lies before position p.
ParsedBefore(s, p) ==
    LET Before(call) == call.ok /\ call.end < p IN SelectSeq(json_loads_calls[s], Before)

(***************************************************************************)
(* C6.  Once the token stream has ended normally, the generator's events   *)
(* are data events followed by [DONE], which is there once and last,       *)
(* whatever bracket_count and in_string are; the whole text was scanned,   *)
(* and an object left open at the end (bracket_count > 0, opened at        *)
(* object_start) has no data event: the data events are those of the       *)
(* objects parsed before it.                                               *)
(***************************************************************************)
C6_DoneOnceAndLast ==
    \A s \in Streams :
        response_stream[s] = "exhausted" =>
            /\ events[s] # <<>>
            /\ Last(events[s]) = DONE
            /\ \A m \in 1..(Len(events[s]) - 1) : IsData(events[s][m])
            /\ accumulated_content[s] = text[s]
            /\ pc[s] \in {"finish", "done"}
            /\ Len(DataEvents(s)) = Len(OkCalls(json_loads_calls[s]))
            /\ bracket_count[s] > 0 =>
                  /\ object_start[s] >= 0
                  /\ Len(DataEvents(s)) = Len(ParsedBefore(s, object_start[s]))

\* The text {}{" has ended: one object was emitted, the second is open, inside
\* a string, and [DONE] has been yielded.
C6_Witness ==
    /\ response_stream["s1"] = "exhausted"
    /\ text["s1"] = <<"{", "}", "{", "\"">>
    /\ bracket_count["s1"] = 1
    /\ in_string["s1"]
    /\ object_start["s1"] = 2
    /\ events["s1"] = <<DataEvent(<<>>), DONE>>

IsTerminal(e) == e.kind \in {"done", "error"}

\* The generator has returned, or is about to: nothing of it runs any more
\* but the runner's put of its own sentinel.
Stopped(s) == pc[s] \in {"finish", "done"}

\* What a stream's generator has yielded is never taken back.
EventsOnlyAppended(s) ==
    \/ events'[s] = events[s]
    \/ /\ Len(events'[s]) = Len(events[s]) + 1
       /\ SubSeq(events'[s], 1, Len(events[s])) = events[s]

(***************************************************************************)
(* C7.  A failure (the language has no voice, the voice does not load, the *)
(* completion cannot be requested, the token stream breaks) gives one      *)
(* error event carrying the message, and the generator stops: a terminal   *)
(* event, [DONE] or an error, is always the last event and the only one    *)
(* of its kind, the generator scans, enriches and pulls no more once it is *)
(* there, a stopped generator has one, it is the error when the stream did *)
(* not end normally, and the events yielded before are kept as they were.  *)
(***************************************************************************)
C7_OneTerminalEvent ==
    /\ [](\A s \in Streams :
            /\ \A m \in 1..Len(events[s]) :
                  IsTerminal(events[s][m]) => m = Len(events[s]) /\ Stopped(s)
            /\ Stopped(s) => events[s] # <<>> /\ IsTerminal(Last(events[s]))
            /\ (Stopped(s) /\ response_stream[s] # "exhausted") =>
                  /\ Last(events[s]).kind = "error"
                  /\ Get(Last(events[s]).obj, "error").t = "str"
            /\ (Stopped(s) /\ response_stream[s] = "exhausted") => Last(events[s]) = DONE)
    /\ [][\A s \in Streams :
            /\ EventsOnlyAppended(s)
            /\ Stopped(s) =>
                  /\ events'[s] = events[s]
                  /\ json_loads_calls'[s] = json_loads_calls[s]
                  /\ accumulated_content'[s] = accumulated_content[s]
                  /\ i'[s] = i[s]
                  /\ Stopped(s)']_vars

\* The token stream broke after the first object had been emitted: the data
\* event is still there, the error event follows it, and the generator is over.
C7_Witness ==
    /\ pc["s1"] = "done"
    /\ response_stream["s1"] = "broken"
    /\ Len(events["s1"]) = 2
    /\ IsData(events["s1"][1])
    /\ events["s1"][2] = ErrorEvent("Connection error.")
    /\ Len(accumulated_content["s1"]) < Len(text["s1"])

\* The try of lines 395-403 raised: the search raised, or its sizes are not
\* what the arithmetic of line 397 takes.
Failed(out) ==
    \/ out.raises \notin {"", "none"}
    \/ /\ out.raises = ""
       /\ \/ out.width.t # "int"
          \/ out.width.n > 0 /\ out.height.t # "int"

\* The object at hand as json.loads returned it.
Parsed(s) == Loaded(s, Last(json_loads_calls[s])).c

\* The placeholder a failed search leaves: a text, in the error colour, whose
\* content names the term searched for.
IsPlaceholder(o, term) ==
    /\ Get(o, "type") = StrVal("text")
    /\ Get(o, "content") = StrVal("**Error:** Could not find image for '" \o term \o "'")
    /\ Get(o, "textColor") = StrVal("#ef4444")

(***************************************************************************)
(* C8.  The image search is made for an object whose type is "image" and   *)
(* whose search is not empty, and it never ends the stream: the step goes  *)
(* on to the synthesis or the yield and adds no event.  When it failed,    *)
(* the object at hand is the placeholder for its term from then to its     *)
(* yield, its other members as parsed; the yield appends the object as one *)
(* data event and the scan goes on with the next character or chunk.       *)
(***************************************************************************)
C8_FailedSearchForwarded ==
    /\ [](\A s \in Streams :
            /\ pc[s] = "search" => WantsImage(obj[s]) /\ obj[s] = Parsed(s)
            /\ (pc[s] \in {"tts", "yield"} /\ Failed(image_data[s])) =>
                  /\ WantsImage(Parsed(s))
                  /\ IsPlaceholder(obj[s], PyStr(Get(Parsed(s), "search")))
                  /\ Strip(obj[s]) = Strip(Parsed(s)))
    /\ [][\A s \in Streams :
            /\ pc[s] = "search" =>
                  /\ pc'[s] \in {"tts", "yield"}
                  /\ events'[s] = events[s]
                  /\ image_data'[s] \in SearchOutcomes
            /\ pc[s] = "tts" =>
                  /\ pc'[s] = "yield"
                  /\ events'[s] = events[s]
                  /\ image_data'[s] = image_data[s]
                  /\ SelectSeq(obj'[s], NotAudio) = SelectSeq(obj[s], NotAudio)
            /\ pc[s] = "yield" =>
                  /\ events'[s] = Append(events[s], DataEvent(obj[s]))
                  /\ pc'[s] \in {"scan", "pull"}]_vars

\* The search for "x" failed; the placeholder was emitted, and so was the
\* object that followed the image in the text.
C8_Witness ==
    /\ Len(DataEvents("s1")) = 2
    /\ IsPlaceholder(DataEvents("s1")[1].obj, "x")
    /\ Get(DataEvents("s1")[1].obj, "search") = StrVal("x")
    /\ DataEvents("s1")[2].obj = ElemDict(ElemText)

\* An object is being enriched: parsed, not yet yielded.
Enriching(s) == pc[s] \in {"search", "tts", "yield"}

(***************************************************************************)
(* C9.  While an object is being enriched, the last character scanned is   *)
(* its closing brace, the last slice handed to json.loads is its own, and  *)
(* every object parsed before it has its data event; until its own data    *)
(* event is yielded no character is scanned and no chunk is pulled.        *)
(* Outside of enrichment every parsed object has its data event.  So the   *)
(* data events are, one for one and in order, the objects in the order of  *)
(* their closing braces in the text.                                       *)
(***************************************************************************)
C9_EmittedBeforeScanGoesOn ==
    /\ [](\A s \in Streams :
            LET calls == json_loads_calls[s]
                ok == OkCalls(calls)
                data == DataEvents(s)
            IN  /\ Enriching(s) =>
                      /\ i[s] >= 1
                      /\ delta[s][i[s]] = "}"
                      /\ calls # <<>>
                      /\ Last(calls).ok
                      /\ Last(calls).end = Len(accumulated_content[s]) - Len(delta[s]) + i[s] - 1
                      /\ Len(data) = Len(ok) - 1
                /\ ~Enriching(s) => Len(data) = Len(ok)
                /\ \A m \in 2..Len(calls) : calls[m - 1].end < calls[m].end)
    /\ [][\A s \in Streams :
            Enriching(s) =>
                /\ i'[s] = i[s]
                /\ delta'[s] = delta[s]
                /\ accumulated_content'[s] = accumulated_content[s]
                /\ json_loads_calls'[s] = json_loads_calls[s]
                /\ \/ Enriching(s)' /\ events'[s] = events[s]
                   \/ /\ pc[s] = "yield"
                      /\ events'[s] = Append(events[s], DataEvent(obj[s]))
                      /\ Carries(obj[s], Parsed(s))]_vars

\* The second object of a chunk is being synthesised after its image was
\* searched for; the first has its event, and the rest of the chunk waits.
C9_Witness ==
    /\ pc["s1"] = "tts"
    /\ image_data["s1"] # NoSearch
    /\ Len(DataEvents("s1")) = 1
    /\ i["s1"] < Len(delta["s1"])
    /\ Len(delta["s1"]) = Len(text["s1"])

(***************************************************************************)
(* C10.  The statement: once sync_event_stream is closed, the runner pulls *)
(* no further chunk and starts no further image search or synthesis.  It   *)
(* does not hold: closing the generator raises GeneratorExit at its yield  *)
(* and tells the thread nothing, so event_generator runs on to the end of  *)
(* the token stream, enriching every object and putting its events into a  *)
(* queue that nobody reads.                                                *)
(***************************************************************************)
C10_RunnerStopsOnDisconnect ==
    [][\A s \in Streams :
          cpc[s] = "closed" =>
              /\ ~(pc[s] = "pull" /\ pc'[s] = "scan")
              /\ ~(pc[s] = "scan" /\ pc'[s] \in {"search", "tts"})]_vars

\* The client left after the first event of a stream of two objects; the runner
\* went on to the end: both objects enriched, [DONE] put, the thread over, and
\* what was put after the first event is still in the queue.
C10_Witness ==
    /\ cpc["s1"] = "closed"
    /\ Len(delivered["s1"]) = 1
    /\ pc["s1"] = "done"
    /\ response_stream["s1"] = "exhausted"
    /\ Len(DataEvents("s1")) = 2
    /\ Len(q["s1"]) = 3

\* Everything a request holds: the locals of its event_generator and of its
\* sync_event_stream.
Locals(s) ==
    <<text[s], response_stream[s], pc[s], lang[s], voice[s], accumulated_content[s], delta[s],
      i[s], bracket_count[s], in_string[s], escape_next[s], object_start[s], obj[s],
      image_data[s], json_loads_calls[s], events[s], q[s], cpc[s], delivered[s]>>

NotSentinel(e) == e # sentinel

(***************************************************************************)
(* C11.  Two requests served at once: a step that changes what one of them *)
(* holds leaves what the other holds as it is, whatever the interleaving;  *)
(* what a request's response was handed, followed by what waits in its     *)
(* queue, is what its own generator yielded; and a stream that ended with  *)
(* [DONE] handed to json.loads the slices of its own text scanned alone    *)
(* and at once, and yielded the objects parsed from them, in order.        *)
(***************************************************************************)
C11_StreamsIndependent ==
    /\ [](\A s \in Streams :
            /\ delivered[s] \o SelectSeq(q[s], NotSentinel) = events[s]
            /\ JustDone(s) =>
                  LET ok == OkCalls(json_loads_calls[s])
                      data == DataEvents(s)
                  IN  /\ json_loads_calls[s] = RefCalls(text[s])
                      /\ Len(data) = Len(ok)
                      /\ \A m \in 1..Len(data) : Carries(data[m].obj, Loaded(s, ok[m]).c))
    /\ [][\A s \in Streams : \A t \in Streams \ {s} :
            Locals(s)' # Locals(s) => Locals(t)' = Locals(t)]_vars

\* The first stream has emitted its object and ended while the second, started
\* before that, is inside a string of its own object.
C11_Witness ==
    /\ JustDone("s1")
    /\ Len(DataEvents("s1")) = 1
    /\ bracket_count["s1"] = 0
    /\ pc["s2"] = "scan"
    /\ in_string["s2"]
    /\ bracket_count["s2"] = 1
    /\ object_start["s2"] = 0

(***************************************************************************)
(* C12.  The statement: in every state of the scanner, bracket_count is 0  *)
(* if and only if object_start is -1 (no object is open).  It does not     *)
(* hold: nothing in the loop assigns -1 to object_start, so after the      *)
(* first object bracket_count is 0 again and object_start still holds that *)
(* object's position; and a closing brace before any opening one leaves    *)
(* bracket_count at -1 with object_start at -1.                            *)
(***************************************************************************)
C12_ZeroDepthIffNoStart ==
    \A s \in Streams : (bracket_count[s] = 0) <=> (object_start[s] = -1)

\* The object {} has been parsed and emitted, the chunk is over: no object is
\* open, and object_start is still 0.
C12_Witness ==
    /\ pc["s1"] = "pull"
    /\ accumulated_content["s1"] = <<"{", "}">>
    /\ events["s1"] = <<DataEvent(<<>>)>>
    /\ bracket_count["s1"] = 0
    /\ object_start["s1"] = 0

\* A closing brace that nothing opened, then one well-formed object.
StrayThenObject == {<<"}">> \o DumpObj(e, sty) : e \in ElemPool, sty \in Styles}

(***************************************************************************)
(* C13.  The statement: bracket_count is never negative, and an object     *)
(* that follows a closing brace that nothing opened is still emitted.  It  *)
(* does not hold: line 388 decrements without a test, so the stray brace   *)
(* leaves bracket_count at -1; the opening brace of the next object then   *)
(* finds bracket_count # 0 and does not record object_start, its closing   *)
(* brace brings bracket_count back to -1, and no object is parsed again.   *)
(***************************************************************************)
C13_DepthNeverNegative ==
    \A s \in Streams :
        /\ bracket_count[s] >= 0
        /\ (JustDone(s) /\ text[s] \in StrayThenObject) => Len(DataEvents(s)) = 1

\* The answer }{} has been scanned to its end: [DONE] is the only event, nothing
\* was handed to json.loads, and bracket_count is -1.
C13_Witness ==
    /\ JustDone("s1")
    /\ text["s1"] = <<"}", "{", "}">>
    /\ events["s1"] = <<DONE>>
    /\ json_loads_calls["s1"] = <<>>
    /\ bracket_count["s1"] = -1

\* The step hands a slice to json.loads, which raises JSONDecodeError.
DecodeErrorStep(s) ==
    /\ Len(json_loads_calls'[s]) = Len(json_loads_calls[s]) + 1
    /\ ~Last(json_loads_calls'[s]).ok

(***************************************************************************)
(* C14.  A step whose slice does not parse adds no event, binds no object, *)
(* ends nothing and leaves the scan one character further in the same      *)
(* text; and when a well-formed object follows a slice that did not parse, *)
(* the stream that ends with [DONE] has emitted that object and nothing    *)
(* else.                                                                   *)
(***************************************************************************)
C14_DecodeErrorDiscarded ==
    /\ [][\A s \in Streams :
            DecodeErrorStep(s) =>
                /\ events'[s] = events[s]
                /\ q'[s] = q[s]
                /\ obj'[s] = obj[s]
                /\ pc'[s] = IF i'[s] < Len(delta[s]) THEN "scan" ELSE "pull"
                /\ i'[s] = i[s] + 1
                /\ accumulated_content'[s] = accumulated_content[s]
                /\ delta'[s] = delta[s]]_vars
    /\ [](\A s \in Streams : \A e \in ElemPool :
            (JustDone(s) /\ text[s] = NotJSON \o DumpObj(e, Compact)) =>
                /\ json_loads_calls[s] =
                       <<[start |-> 0, end |-> 2, ok |-> FALSE],
                         [start |-> 3, end |-> Len(text[s]) - 1, ok |-> TRUE]>>
                /\ Len(events[s]) = 2
                /\ IsData(events[s][1])
                /\ Carries(events[s][1].obj, ElemDict(e)))

\* {a}{"type":"image",...} came as one chunk: {a} was tried and dropped, the
\* image after it was searched for and emitted, and the stream ended.
C14_Witness ==
    /\ JustDone("s1")
    /\ text["s1"] = NotJSON \o DumpObj(ElemImage, Compact)
    /\ delta["s1"] = text["s1"]
    /\ ~json_loads_calls["s1"][1].ok
    /\ Len(events["s1"]) = 2
    /\ Get(events["s1"][1].obj, "search") = StrVal("x")

\* The object inside NestedText, as json.loads returns it.
InnerObject == << [k |-> "type", v |-> StrVal("image")], [k |-> "search", v |-> StrVal("x")] >>

(***************************************************************************)
(* C15.  object_start is written only by the step that scans a '{'         *)
(* outside a string with bracket_count 0, and it is that brace's position; *)
(* a slice is handed to json.loads only by the step that scans a '}'       *)
(* outside a string with bracket_count 1, and it runs from object_start to *)
(* that brace: the braces in between were counted up and down above 0 and  *)
(* gave no slice.  So the object inside an object has no event of its own: *)
(* the answer made of an object holding an object, then {}, ends with the  *)
(* events of the two top-level objects, the first holding the inner one.   *)
(***************************************************************************)
C15_NestedNotEmitted ==
    /\ [][\A s \in Streams :
            LET pos == Len(accumulated_content[s]) - Len(delta[s]) + i[s]
            IN  /\ object_start'[s] # object_start[s] =>
                      /\ pc[s] = "scan"
                      /\ delta[s][i[s] + 1] = "{"
                      /\ ~in_string[s]
                      /\ bracket_count[s] = 0
                      /\ bracket_count'[s] = 1
                      /\ object_start'[s] = pos
                /\ json_loads_calls'[s] # json_loads_calls[s] =>
                      /\ pc[s] = "scan"
                      /\ delta[s][i[s] + 1] = "}"
                      /\ ~in_string[s]
                      /\ bracket_count[s] = 1
                      /\ bracket_count'[s] = 0
                      /\ Len(json_loads_calls'[s]) = Len(json_loads_calls[s]) + 1
                      /\ Last(json_loads_calls'[s]).start = object_start[s]
                      /\ Last(json_loads_calls'[s]).end = pos
                      /\ accumulated_content[s][object_start[s] + 1] = "{"]_vars
    /\ [](\A s \in Streams :
            (JustDone(s) /\ text[s] = NestedText \o <<"{", "}">>) =>
                /\ json_loads_calls[s] =
                       <<[start |-> 0, end |-> Len(NestedText) - 1, ok |-> TRUE],
                         [start |-> Len(NestedText), end |-> Len(NestedText) + 1, ok |-> TRUE]>>
                /\ events[s] = <<DataEvent(<<[k |-> "content", v |-> ObjVal(InnerObject)]>>),
                                 DataEvent(<<>>), DONE>>)

\* The closing brace of the inner object has just been scanned: bracket_count
\* is back to 1 and nothing was handed to json.loads.
C15_Witness ==
    /\ text["s1"] = NestedText \o <<"{", "}">>
    /\ i["s1"] >= 1
    /\ Len(accumulated_content["s1"]) - Len(delta["s1"]) + i["s1"] = Len(NestedText) - 1
    /\ delta["s1"][i["s1"]] = "}"
    /\ bracket_count["s1"] = 1
    /\ object_start["s1"] = 0
    /\ json_loads_calls["s1"] = <<>>
    /\ events["s1"] = <<>>

HasKey(o, key) == \E m \in 1..Len(o) : o[m].k = key

\* The object is to be narrated: its speakAloud is not empty and a voice is bound.
Narrated(s) == Truthy(Get(obj[s], "speakAloud")) /\ voice[s] # "none"

\* audioDataUrl is there: the data URL of the narration, or None.
HasAudio(o) ==
    /\ HasKey(o, "audioDataUrl")
    /\ Get(o, "audioDataUrl") \in
           {None, StrVal("data:audio/wav;base64,<" \o PyStr(Get(o, "speakAloud")) \o ">")}

(***************************************************************************)
(* C16.  The synthesis is made for an object to be narrated; whether it    *)
(* returns or raises, its step adds no event, ends nothing, goes on to the *)
(* yield and leaves the object with the key audioDataUrl, a data URL or    *)
(* None, its other members as they were.  An object to be narrated that is *)
(* about to be yielded has the key, and the yield appends it, key          *)
(* included, as a data event.                                              *)
(***************************************************************************)
C16_AudioKeyAlwaysSet ==
    /\ [](\A s \in Streams :
            /\ pc[s] = "tts" => Narrated(s)
            /\ (pc[s] = "yield" /\ Narrated(s)) => HasAudio(obj[s]))
    /\ [][\A s \in Streams :
            /\ pc[s] = "tts" =>
                  /\ pc'[s] = "yield"
                  /\ events'[s] = events[s]
                  /\ HasAudio(obj'[s])
                  /\ SelectSeq(obj'[s], NotAudio) = SelectSeq(obj[s], NotAudio)
            /\ (pc[s] = "yield" /\ Narrated(s)) =>
                  /\ events'[s] = Append(events[s], DataEvent(obj[s]))
                  /\ HasAudio(Last(events'[s]).obj)
                  /\ pc'[s] \in {"scan", "pull"}]_vars

\* The synthesis of the first object raised: its event carries audioDataUrl:
\* null, and the object after it was emitted too.
C16_Witness ==
    /\ Len(DataEvents("s1")) = 2
    /\ HasKey(DataEvents("s1")[1].obj, "audioDataUrl")
    /\ Get(DataEvents("s1")[1].obj, "audioDataUrl") = None
    /\ Get(DataEvents("s1")[1].obj, "speakAloud") = StrVal("a")
    /\ DataEvents("s1")[2].obj = ElemDict(ElemText)

\* The generator has read the language and was given no voice for it.
NoVoice(s) == lang[s] # "none" /\ voice[s] = "none"

(***************************************************************************)
(* C17.  The statement: a stream whose language has no voice (the code is  *)
(* not in VOICE_MODEL_PATHS, or the model does not load) is served all the *)
(* same, without narration, and ends with [DONE].  It does not hold:       *)
(* get_voice_for_lang does not return None, it aborts, and the exception   *)
(* is caught by the generator's except: the stream is one error event, and *)
(* the completion is never requested.                                      *)
(***************************************************************************)
C17_ServedWithoutVoice ==
    \A s \in Streams :
        (Stopped(s) /\ NoVoice(s)) =>
            /\ EndedWithDone(s)
            /\ \A m \in 1..Len(DataEvents(s)) : ~HasKey(DataEvents(s)[m].obj, "audioDataUrl")

\* The language was set to fr-FR before the request: the whole stream is the
\* error event of the abort, and nothing of the answer was read.
C17_Witness ==
    /\ pc["s1"] = "done"
    /\ lang["s1"] = "fr_FR"
    /\ voice["s1"] = "none"
    /\ events["s1"] = <<ErrorEvent("400 Bad Request: Unsupported language: fr_FR")>>
    /\ accumulated_content["s1"] = <<>>
    /\ text["s1"] # <<>>
    /\ response_stream["s1"] = "none"

\* a / b rounded to the nearest integer, for a >= 0 and b > 0 (no tie arises in
\* what follows).
Nearest(a, b) == (2 * a + b) \div (2 * b)

\* The search for the object at hand returned, with sizes that are positive integers.
SearchSucceeded(s) ==
    /\ image_data[s].raises = ""
    /\ image_data[s].width.t = "int" /\ image_data[s].width.n > 0
    /\ image_data[s].height.t = "int" /\ image_data[s].height.n > 0

\* The width the object asked for, or the default.
WidthUsed(o) == IF Get(o, "width").t = "int" THEN Get(o, "width").n ELSE DefaultWidth

(***************************************************************************)
(* C18.  The statement: after a successful search the object has the       *)
(* result's imageUrl, the width it asked for (350 when that is no          *)
(* integer), and the height round(width * result.height / result.width).   *)
(* The height does not hold: line 401 is int(final_width * aspect_ratio),  *)
(* which truncates: a width of 6 and a result of 8 x 5 give 3, not 4.      *)
(***************************************************************************)
C18_HeightRounded ==
    \A s \in Streams :
        (pc[s] \in {"tts", "yield"} /\ SearchSucceeded(s)) =>
            /\ Get(obj[s], "imageUrl") = StrVal(image_data[s].imageUrl)
            /\ Get(obj[s], "width") = IntVal(WidthUsed(Parsed(s)))
            /\ Get(obj[s], "height") =
                   IntVal(Nearest(WidthUsed(Parsed(s)) * image_data[s].height.n,
                                  image_data[s].width.n))

\* The image of width 6 was found, 8 by 5: 6 * 5 / 8 is 3.75, and the object
\* about to be yielded has height 3.
C18_Witness ==
    /\ pc["s1"] = "yield"
    /\ SearchSucceeded("s1")
    /\ image_data["s1"].width = IntVal(8)
    /\ image_data["s1"].height = IntVal(5)
    /\ Get(obj["s1"], "imageUrl") = StrVal("https://images/x")
    /\ Get(obj["s1"], "width") = IntVal(6)
    /\ Get(obj["s1"], "height") = IntVal(3)

\* The object is an image with something to search for.
IsImageQuery(o) ==
    /\ Get(o, "type") = StrVal("image")
    /\ Get(o, "search") \notin {None, StrVal("")}

(***************************************************************************)
(* C19.  The image search is made for an object at hand exactly when its   *)
(* type is "image" and its search is not empty, and it is made first: the  *)
(* object is then as parsed.  An object of another kind goes to the        *)
(* synthesis or the yield with no search made and its members as parsed;   *)
(* before the synthesis no object has audioDataUrl; and the steps follow   *)
(* one order: scan, then search, then synthesis, then yield, each of the   *)
(* middle two at most once, the yield appending the object as it then is,  *)
(* which for an object of another kind is the parsed object and, at most,  *)
(* audioDataUrl.                                                           *)
(***************************************************************************)
C19_SearchOnlyForImages ==
    /\ [](\A s \in Streams :
            /\ pc[s] = "search" =>
                  /\ IsImageQuery(Parsed(s))
                  /\ obj[s] = Parsed(s)
                  /\ image_data[s] = NoSearch
            /\ pc[s] \in {"tts", "yield"} =>
                  /\ IsImageQuery(Parsed(s)) <=> image_data[s] # NoSearch
                  /\ ~IsImageQuery(Parsed(s)) => SelectSeq(obj[s], NotAudio) = Parsed(s)
            /\ pc[s] = "tts" => ~HasKey(obj[s], "audioDataUrl"))
    /\ [][\A s \in Streams :
            /\ (pc'[s] = "search" /\ pc[s] # "search") => pc[s] = "scan"
            /\ (pc'[s] = "tts" /\ pc[s] # "tts") => pc[s] \in {"scan", "search"}
            /\ (pc'[s] = "yield" /\ pc[s] # "yield") => pc[s] \in {"scan", "search", "tts"}
            /\ pc[s] = "search" => pc'[s] \in {"tts", "yield"}
            /\ pc[s] = "tts" => pc'[s] = "yield"
            /\ pc[s] = "yield" =>
                  /\ events'[s] = Append(events[s], DataEvent(obj[s]))
                  /\ ~IsImageQuery(Parsed(s)) =>
                        SelectSeq(Last(events'[s]).obj, NotAudio) = Parsed(s)]_vars

\* The image with an empty search was narrated and emitted: no search was made
\* and its event is the parsed object and audioDataUrl.
C19_Witness ==
    /\ text["s1"] = DumpObj(ElemNoSearch, Compact)
    /\ Len(events["s1"]) = 1
    /\ SelectSeq(events["s1"][1].obj, NotAudio) = ElemDict(ElemNoSearch)
    /\ HasKey(events["s1"][1].obj, "audioDataUrl")
    /\ Get(events["s1"][1].obj, "type") = StrVal("image")

\* sync_event_stream is over: it returned after the join, or it was closed.
Over(s) == cpc[s] \in {"end", "closed"}

(***************************************************************************)
(* C20.  What sync_event_stream has yielded, followed by what waits in the *)
(* queue, is what event_generator has yielded, each event once and in      *)
(* order; the sentinel is in the queue only once the generator is over,    *)
(* and last; a sync_event_stream that returned has yielded every event and *)
(* joined a thread that was over.  And a started sync_event_stream that is *)
(* not closed does return: it is never left waiting on q.get().            *)
(***************************************************************************)
C20_BridgeLosslessAndEnds ==
    /\ [](\A s \in Streams :
            /\ delivered[s] \o SelectSeq(q[s], NotSentinel) = events[s]
            /\ \A m \in 1..Len(q[s]) : q[s][m] = sentinel => m = Len(q[s]) /\ pc[s] = "done"
            /\ cpc[s] \in {"join", "end"} =>
                  /\ delivered[s] = events[s]
                  /\ q[s] = <<>>
                  /\ pc[s] = "done"
                  /\ IsTerminal(Last(delivered[s])))
    /\ \A s \in Streams : (cpc[s] = "get") ~> Over(s)

\* The response was handed the two objects and [DONE], in the generator's
\* order, and sync_event_stream returned after joining the thread.
C20_Witness ==
    /\ cpc["s1"] = "end"
    /\ pc["s1"] = "done"
    /\ Len(delivered["s1"]) = 3
    /\ delivered["s1"] = events["s1"]
    /\ IsData(delivered["s1"][1])
    /\ IsData(delivered["s1"][2])
    /\ delivered["s1"][3] = DONE

(***************************************************************************)
(* C21.  The slices handed to json.loads lie one after the other in the    *)
(* accumulated text: each begins with an opening brace and ends with a     *)
(* closing one, and each begins after the one before it ended, so that no  *)
(* position of the text is in two of them; and no more objects are emitted *)
(* than slices were parsed.  This holds although object_start is never     *)
(* reset: a slice is cut only when bracket_count comes back to 0 from 1,   *)
(* and it went from 0 to 1 at an opening brace that assigned object_start. *)
(***************************************************************************)
C21_SlicesDisjointIncreasing ==
    \A s \in Streams :
        LET calls == json_loads_calls[s]
        IN  /\ \A m \in 1..Len(calls) :
                  /\ calls[m].start < calls[m].end
                  /\ calls[m].end < Len(accumulated_content[s])
                  /\ accumulated_content[s][calls[m].start + 1] = "{"
                  /\ accumulated_content[s][calls[m].end + 1] = "}"
                  /\ m > 1 => calls[m - 1].end < calls[m].start
            /\ Len(DataEvents(s)) <= Len(OkCalls(calls))

\* Two objects were cut, parsed and emitted, the second while object_start
\* still held the first one's position when its opening brace was scanned.
C21_Witness ==
    /\ Len(json_loads_calls["s1"]) = 2
    /\ json_loads_calls["s1"][1].ok
    /\ json_loads_calls["s1"][2].ok
    /\ json_loads_calls["s1"][1].start = 0
    /\ json_loads_calls["s1"][2].start > json_loads_calls["s1"][1].end
    /\ object_start["s1"] = json_loads_calls["s1"][2].start
    /\ bracket_count["s1"] = 0
    /\ Len(DataEvents("s1")) = 2

\* The values /api/set-language can store.
Stored == {Str(Replace(l)) : l \in LangRequests}

(***************************************************************************)
(* C22.  A stream's language and voice are bound in one step, its start:   *)
(* the language is current_language as it is then, the voice is that       *)
(* language's or none; no later step changes them.  A step that changes    *)
(* current_language stores a posted value with '-' replaced by '_',        *)
(* supported or not, and changes nothing of any stream: not its language,  *)
(* its voice, its position or its events.  So a stream in flight keeps its *)
(* voice, and only a stream that starts later reads the new language.      *)
(***************************************************************************)
C22_LanguageReadOnceAtStart ==
    /\ [](\A s \in Streams :
            /\ pc[s] \in {"idle", "start"} => lang[s] = "none" /\ voice[s] = "none"
            /\ voice[s] # "none" => voice[s] = lang[s] /\ lang[s] \in VOICE_MODEL_PATHS)
    /\ [][\A s \in Streams :
            /\ (lang'[s] # lang[s] \/ voice'[s] # voice[s]) =>
                  /\ pc[s] = "start"
                  /\ lang'[s] = current_language
                  /\ voice'[s] \in {current_language, "none"}
            /\ pc[s] = "start" /\ pc'[s] # "start" => lang'[s] = current_language]_vars
    /\ [][current_language' # current_language =>
            /\ current_language' \in Stored
            /\ lang' = lang
            /\ voice' = voice
            /\ voice_cache' = voice_cache
            /\ pc' = pc
            /\ events' = events
            /\ q' = q]_vars

\* The stream started in en_US and is about to synthesize an object's narration
\* with that voice, while the shared language is fr_FR, which has no voice.
C22_Witness ==
    /\ pc["s1"] = "tts"
    /\ lang["s1"] = "en_US"
    /\ voice["s1"] = "en_US"
    /\ current_language = "fr_FR"
    /\ current_language \notin VOICE_MODEL_PATHS
    /\ Len(DataEvents("s1")) = 1
====
